---- MODULE Spec2Model ----
(***************************************************************************)
(* A model of scholar-digest: the block-stream editor (edit.py) and the    *)
(* alert aggregator (harvest.py).                                          *)
(*                                                                         *)
(* Text is modelled as sequences of characters (one-character strings, or  *)
(* for names and fixed phrases one indivisible piece of text), a file as   *)
(* the sequence of its newline-terminated lines.                           *)
(***************************************************************************)
EXTENDS Integers, Sequences, FiniteSets, TLC

VARIABLES
    \* ---- edit.py: the file system and one editor process ----
    fs_file,      \* the original path: [exists, data]
    fs_bak,       \* the backup path <path>.bak: [exists, data]
    pat,          \* the compiled pattern of this invocation
    op,           \* "none" | "show" | "delete"
    pc,           \* position of the editor process
    rpos,         \* number of lines the input iterator has delivered
    lines,        \* drop_blocks / show_blocks local `lines`
    keep,         \* drop_blocks / show_blocks local `keep`
    outbuf,       \* lines written to `writable`, still in its buffer
    w_attached,   \* the inode `writable` writes to is linked at the original path
    exc,          \* exception propagating out of inplace: "none" | "Exception" | "BaseException"
    stdout,       \* what show_blocks has written to sys.stdout
    runs,         \* editor invocations started so far
    orig,         \* history: content of the original path when the operation started
    pre_bak,      \* history: the backup path when the operation started
    show_of,      \* history: <<content>> the last show read, or <<>>
    injected,     \* history: the kind of exception raised inside the with-block
    \* ---- harvest.py: one run of main ----
    scraper,      \* the ScholarScraper: [papers, keys, pending_subject, pending_url]
    hpc,          \* position of main: "scan" | "dump" | "exit"
    nonfree_blacklist,  \* dump's local, read from nonfree-blacklist.txt
    topic_blacklist,    \* dump's local, read from topic-blacklist.txt
    dump_i,       \* papers dump's loop has gone through
    printed,      \* what the run has printed, one element per print call
    ncaptured,    \* handle_data calls that found a pending URL
    nmsgs,        \* messages main's loop has gone through
    first_text,   \* history: URL -> the first text captured for it
    observed,     \* history: the <<URL, pending_subject>> of every capture
    recaptured,   \* history: the URLs captured again with a text other than the first
    anchor_open,  \* history: the url parameter of the last qualifying anchor met
                  \* since the last end tag, or None
    extracted,    \* history: the url parameters of the qualifying anchors met
    \* ---- harvest.py: the same messages fed to two scrapers in two orders ----
    ord_pairs,    \* the messages: a sequence of [subject, fragment]
    ord_perm,     \* the order in which the second scraper gets them
    ord_a,        \* the first scraper
    ord_b,        \* the second scraper
    ord_ia,       \* messages the first scraper has been fed
    ord_ib,       \* messages the second scraper has been fed
    \* ---- edit.py: main, from the command line to the exit status ----
    argv,         \* args.show and args.delete: None or the pattern given
    exit_status,  \* None while the process runs, then its exit status
    err,          \* history: the error that ended the run, or "none"
    pre_file      \* history: the original path when the process started

editVars == <<fs_file, fs_bak, pat, op, pc, rpos, lines, keep, outbuf,
              w_attached, exc, stdout, runs, orig, pre_bak, show_of, injected>>

harvestVars == <<scraper, hpc, nonfree_blacklist, topic_blacklist, dump_i,
                 printed, ncaptured, nmsgs, first_text, observed, recaptured,
                 anchor_open, extracted>>

orderVars == <<ord_pairs, ord_perm, ord_a, ord_b, ord_ia, ord_ib>>

mainVars == <<argv, exit_status, err, pre_file>>

vars == <<editVars, harvestVars, orderVars, mainVars>>

notEditVars == <<harvestVars, orderVars, mainVars>>
notHarvestVars == <<editVars, orderVars, mainVars>>
notOrderVars == <<editVars, harvestVars, mainVars>>

-----------------------------------------------------------------------------
(* Bounds of the model *)

MaxFileLen == 3
MaxRuns == 2
MaxCaptures == 3
MaxPairs == 2
MaxMessages == 2
MaxFragLen == 2

-----------------------------------------------------------------------------
(* Text helpers *)

SEP == <<"-", "-", "-">>

\* str.lower() / re.IGNORECASE on the characters the model uses
Lower(c) ==
    CASE c = "A" -> "a"
      [] c = "B" -> "b"
      [] c = "Q" -> "q"
      [] OTHER -> c

LowerStr(s) == [i \in 1..Len(s) |-> Lower(s[i])]

\* str.startswith
StartsWith(s, p) == Len(s) >= Len(p) /\ SubSeq(s, 1, Len(p)) = p

\* `b in s` for strings
Contains(s, b) ==
    \E i \in 0..(Len(s) - Len(b)) : SubSeq(s, i + 1, i + Len(b)) = b

\* pat.search(line) for a literal pattern compiled with re.IGNORECASE
PatSearch(p, line) == Contains(LowerStr(line), LowerStr(p))

LineSet == { SEP, <<"-", "-", "-", "x">>, <<"a">>, <<"B">> }

PatSet == { <<"a">>, <<"b">> }

RECURSIVE SeqsUpTo(_, _)
SeqsUpTo(S, n) ==
    IF n = 0 THEN { <<>> }
    ELSE LET shorter == SeqsUpTo(S, n - 1)
         IN  shorter \cup { Append(s, x) : s \in { t \in shorter : Len(t) = n - 1 }, x \in S }

Absent == [exists |-> FALSE, data |-> <<>>]
File(d) == [exists |-> TRUE, data |-> d]

\* a backup left behind by an earlier, failed run
StaleBackup == File(<< <<"B">> >>)

-----------------------------------------------------------------------------
(* edit.py *)

\* flush_block: the lines it writes to outfh
flush_block(k, ls) == IF k THEN <<SEP>> \o ls ELSE <<>>

\* one iteration of the loop of drop_blocks, on state [lines, keep, out]
DropIter(st, rawline) ==
    IF StartsWith(rawline, SEP)
    THEN [lines |-> <<>>, keep |-> TRUE,
          out |-> st.out \o flush_block(st.keep, st.lines)]
    ELSE [lines |-> Append(st.lines, rawline),
          keep |-> IF PatSearch(pat, rawline) THEN FALSE ELSE st.keep,
          out |-> st.out]

\* the statement after the loop of drop_blocks
DropTail(st) ==
    IF Len(st.lines) > 0 THEN st.out \o flush_block(st.keep, st.lines) ELSE st.out

\* one iteration of the loop of show_blocks
ShowIter(st, rawline) ==
    IF StartsWith(rawline, SEP)
    THEN [lines |-> <<>>, keep |-> FALSE,
          out |-> st.out \o flush_block(st.keep, st.lines)]
    ELSE [lines |-> Append(st.lines, rawline),
          keep |-> IF PatSearch(pat, rawline) THEN TRUE ELSE st.keep,
          out |-> st.out]

\* the statement after the loop of show_blocks
ShowTail(st) ==
    IF Len(st.lines) > 0 THEN st.out \o flush_block(st.keep, st.lines) ELSE st.out

InitEdit ==
    /\ fs_file \in { File(d) : d \in SeqsUpTo(LineSet, MaxFileLen) }
    /\ fs_bak \in { Absent, StaleBackup }
    /\ pat \in PatSet
    /\ op = "none"
    /\ pc = "idle"
    /\ rpos = 0
    /\ lines = <<>>
    /\ keep = FALSE
    /\ outbuf = <<>>
    /\ w_attached = FALSE
    /\ exc = "none"
    /\ stdout = <<>>
    /\ runs = 0
    /\ orig = fs_file.data
    /\ pre_bak = fs_bak
    /\ show_of = <<>>
    /\ injected = "none"

\* main: --show, entry of show_blocks
StartShow ==
    /\ pc \in {"idle", "done"}
    /\ runs < MaxRuns
    /\ fs_file.exists
    /\ op' = "show"
    /\ pc' = "show_loop"
    /\ runs' = runs + 1
    /\ rpos' = 0
    /\ lines' = <<>>
    /\ keep' = FALSE
    /\ stdout' = <<>>
    /\ exc' = "none"
    /\ orig' = fs_file.data
    /\ pre_bak' = fs_bak
    /\ show_of' = << fs_file.data >>
    /\ injected' = "none"
    /\ UNCHANGED <<fs_file, fs_bak, pat, outbuf, w_attached>>
    /\ UNCHANGED notEditVars

\* show_blocks: one line of fileinput.input(fname)
ShowLine ==
    /\ pc = "show_loop"
    /\ rpos < Len(fs_file.data)
    /\ LET st == ShowIter([lines |-> lines, keep |-> keep, out |-> stdout],
                          fs_file.data[rpos + 1])
       IN  /\ lines' = st.lines
           /\ keep' = st.keep
           /\ stdout' = st.out
    /\ rpos' = rpos + 1
    /\ UNCHANGED <<fs_file, fs_bak, pat, op, pc, outbuf, w_attached, exc, runs,
                   orig, pre_bak, show_of, injected>>
    /\ UNCHANGED notEditVars

\* show_blocks: end of input
ShowEnd ==
    /\ pc = "show_loop"
    /\ rpos = Len(fs_file.data)
    /\ stdout' = ShowTail([lines |-> lines, keep |-> keep, out |-> stdout])
    /\ pc' = "done"
    /\ UNCHANGED <<fs_file, fs_bak, pat, op, rpos, lines, keep, outbuf,
                   w_attached, exc, runs, orig, pre_bak, show_of, injected>>
    /\ UNCHANGED notEditVars

\* main: --delete, entry of drop_blocks and of inplace
StartDelete ==
    /\ pc \in {"idle", "done"}
    /\ runs < MaxRuns
    /\ fs_file.exists
    /\ op' = "delete"
    /\ pc' = "unlink_old"
    /\ runs' = runs + 1
    /\ rpos' = 0
    /\ lines' = <<>>
    /\ keep' = TRUE
    /\ outbuf' = <<>>
    /\ w_attached' = FALSE
    /\ exc' = "none"
    /\ orig' = fs_file.data
    /\ pre_bak' = fs_bak
    /\ injected' = "none"
    /\ UNCHANGED <<fs_file, fs_bak, pat, stdout, show_of>>
    /\ UNCHANGED notEditVars

\* inplace: os.unlink(backupfilename), errors ignored
InplaceUnlinkOld ==
    /\ pc = "unlink_old"
    /\ fs_bak' = Absent
    /\ pc' = "rename"
    /\ UNCHANGED <<fs_file, pat, op, rpos, lines, keep, outbuf, w_attached,
                   exc, stdout, runs, orig, pre_bak, show_of, injected>>
    /\ UNCHANGED notEditVars

\* inplace: os.rename(filename, backupfilename)
InplaceRename ==
    /\ pc = "rename"
    /\ fs_file.exists
    /\ fs_bak' = fs_file
    /\ fs_file' = Absent
    /\ pc' = "open_r"
    /\ UNCHANGED <<pat, op, rpos, lines, keep, outbuf, w_attached, exc,
                   stdout, runs, orig, pre_bak, show_of, injected>>
    /\ UNCHANGED notEditVars

\* inplace: readable = io.open(backupfilename, ...)
InplaceOpenReadable ==
    /\ pc = "open_r"
    /\ rpos' = 0
    /\ pc' = "open_w"
    /\ UNCHANGED <<fs_file, fs_bak, pat, op, lines, keep, outbuf, w_attached,
                   exc, stdout, runs, orig, pre_bak, show_of, injected>>
    /\ UNCHANGED notEditVars

\* inplace: the new file is created (O_CREAT | O_TRUNC) at the original path
InplaceOpenWritable ==
    /\ pc = "open_w"
    /\ fs_file' = File(<<>>)
    /\ w_attached' = TRUE
    /\ outbuf' = <<>>
    /\ pc' = "body"
    /\ UNCHANGED <<fs_bak, pat, op, rpos, lines, keep, exc, stdout, runs,
                   orig, pre_bak, show_of, injected>>
    /\ UNCHANGED notEditVars

\* the buffer of `writable` is written through to its inode
WriteBack ==
    /\ pc \in {"body", "except_unlink", "except_rename", "finally_close_r",
               "finally_close_w"}
    /\ op = "delete"
    /\ outbuf # <<>>
    /\ outbuf' = Tail(outbuf)
    /\ fs_file' = IF w_attached
                  THEN File(Append(fs_file.data, Head(outbuf)))
                  ELSE fs_file
    /\ UNCHANGED <<fs_bak, pat, op, pc, rpos, lines, keep, w_attached, exc,
                   stdout, runs, orig, pre_bak, show_of, injected>>
    /\ UNCHANGED notEditVars

\* drop_blocks: one line of `for line in infh`
DropLine ==
    /\ pc = "body"
    /\ rpos < Len(fs_bak.data)
    /\ LET st == DropIter([lines |-> lines, keep |-> keep, out |-> outbuf],
                          fs_bak.data[rpos + 1])
       IN  /\ lines' = st.lines
           /\ keep' = st.keep
           /\ outbuf' = st.out
    /\ rpos' = rpos + 1
    /\ UNCHANGED <<fs_file, fs_bak, pat, op, pc, w_attached, exc, stdout,
                   runs, orig, pre_bak, show_of, injected>>
    /\ UNCHANGED notEditVars

\* drop_blocks: end of input, the with-block is left normally
DropEnd ==
    /\ pc = "body"
    /\ rpos = Len(fs_bak.data)
    /\ outbuf' = DropTail([lines |-> lines, keep |-> keep, out |-> outbuf])
    /\ pc' = "finally_close_r"
    /\ UNCHANGED <<fs_file, fs_bak, pat, op, rpos, lines, keep, w_attached,
                   exc, stdout, runs, orig, pre_bak, show_of, injected>>
    /\ UNCHANGED notEditVars

\* an exception is raised inside the with-block: an ordinary one is caught by
\* `except Exception` (no longer in flight while the handler runs), any other
\* BaseException goes straight to `finally`
RaiseInBody ==
    /\ pc = "body"
    /\ \E kind \in {"Exception", "BaseException"} :
          /\ injected' = kind
          /\ exc' = IF kind = "Exception" THEN "none" ELSE kind
          /\ pc' = IF kind = "Exception" THEN "except_unlink" ELSE "finally_close_r"
    /\ UNCHANGED <<fs_file, fs_bak, pat, op, rpos, lines, keep, outbuf,
                   w_attached, stdout, runs, orig, pre_bak, show_of>>
    /\ UNCHANGED notEditVars

\* inplace, except: os.unlink(filename), errors ignored
ExceptUnlink ==
    /\ pc = "except_unlink"
    /\ fs_file' = Absent
    /\ w_attached' = FALSE
    /\ pc' = "except_rename"
    /\ UNCHANGED <<fs_bak, pat, op, rpos, lines, keep, outbuf, exc, stdout,
                   runs, orig, pre_bak, show_of, injected>>
    /\ UNCHANGED notEditVars

\* ExceptRename with the rename back forgotten
ExceptRename_NoRestore ==
    /\ pc = "except_rename"
    /\ exc' = "Exception"
    /\ pc' = "finally_close_r"
    /\ UNCHANGED <<fs_file, fs_bak, pat, op, rpos, lines, keep, outbuf,
                   w_attached, stdout, runs, orig, pre_bak, show_of, injected>>
    /\ UNCHANGED notEditVars

\* ExceptRename with the final `raise` forgotten
ExceptRename_NoReraise ==
    /\ pc = "except_rename"
    /\ fs_file' = fs_bak
    /\ fs_bak' = Absent
    /\ pc' = "finally_close_r"
    /\ UNCHANGED <<pat, op, rpos, lines, keep, outbuf, w_attached, exc,
                   stdout, runs, orig, pre_bak, show_of, injected>>
    /\ UNCHANGED notEditVars

\* inplace, except: os.rename(backupfilename, filename); raise
ExceptRename ==
    /\ pc = "except_rename"
    /\ fs_file' = fs_bak
    /\ fs_bak' = Absent
    /\ exc' = "Exception"
    /\ pc' = "finally_close_r"
    /\ UNCHANGED <<pat, op, rpos, lines, keep, outbuf, w_attached,
                   stdout, runs, orig, pre_bak, show_of, injected>>
    /\ UNCHANGED notEditVars

\* inplace, finally: readable.close()
FinallyCloseReadable ==
    /\ pc = "finally_close_r"
    /\ pc' = "finally_close_w"
    /\ UNCHANGED <<fs_file, fs_bak, pat, op, rpos, lines, keep, outbuf,
                   w_attached, exc, stdout, runs, orig, pre_bak, show_of, injected>>
    /\ UNCHANGED notEditVars

\* inplace, finally: writable.close() flushes what is left in the buffer
FinallyCloseWritable ==
    /\ pc = "finally_close_w"
    /\ fs_file' = IF w_attached THEN File(fs_file.data \o outbuf) ELSE fs_file
    /\ outbuf' = <<>>
    /\ pc' = "finally_unlink"
    /\ UNCHANGED <<fs_bak, pat, op, rpos, lines, keep, w_attached, exc,
                   stdout, runs, orig, pre_bak, show_of, injected>>
    /\ UNCHANGED notEditVars

\* inplace, finally: os.unlink(backupfilename), errors ignored
FinallyUnlinkBackup ==
    /\ pc = "finally_unlink"
    /\ fs_bak' = Absent
    /\ pc' = "done"
    /\ UNCHANGED <<fs_file, pat, op, rpos, lines, keep, outbuf, w_attached,
                   exc, stdout, runs, orig, pre_bak, show_of, injected>>
    /\ UNCHANGED notEditVars

NextEdit ==
    \/ StartShow
    \/ ShowLine
    \/ ShowEnd
    \/ StartDelete
    \/ InplaceUnlinkOld
    \/ InplaceRename
    \/ InplaceOpenReadable
    \/ InplaceOpenWritable
    \/ WriteBack
    \/ DropLine
    \/ DropEnd
    \/ RaiseInBody
    \/ ExceptUnlink
    \/ ExceptRename
    \/ FinallyCloseReadable
    \/ FinallyCloseWritable
    \/ FinallyUnlinkBackup

-----------------------------------------------------------------------------
(* harvest.py *)

\* the fixed suffixes of author_rx, citing_rx and related_rx, each one piece
ART == " - new articles"
CIT == " - new citations"
REL == " - new related research"

\* Subject lines: the pieces of the line in order
SubjectSet ==
    { <<"Ann", CIT>>, <<"Bob", CIT>>, <<"Ann", ART>>, <<"Ann", REL>>, <<"Ann">> }

UrlSet == { <<"s", "p">>, <<"o", "a">> }

TextSet == { <<"Q", "c">>, <<"m", "l">> }

\* the entries the blacklist files may hold (stripped, non-empty lines)
NonfreeLists == { {}, { <<"s">> } }
TopicLists == { {}, { <<"q">> }, { <<"Q">> } }

\* None / a value
None == <<>>
Some(x) == << x >>

\* rx.match(subject) for "^(.*)<suffix>$": the match succeeds when the line
\* ends with the suffix, and group(1) is everything before it
RxMatches(suffix, subject) ==
    Len(subject) >= 1 /\ subject[Len(subject)] = suffix

RxGroup1(subject) == SubSeq(subject, 1, Len(subject) - 1)

\* Paper.__init__
Paper(url, desc) ==
    [url |-> url, desc |-> desc, author |-> {}, citing |-> {}, related |-> {}]

\* note_subject assigning the citing set instead of adding to it
note_subject_Assign(paper, subject) ==
    IF RxMatches(ART, subject)
    THEN [paper EXCEPT !.author = @ \cup { RxGroup1(subject) }]
    ELSE LET p1 == IF RxMatches(CIT, subject)
                   THEN [paper EXCEPT !.citing = { RxGroup1(subject) }]
                   ELSE paper
         IN  IF RxMatches(REL, subject)
             THEN [p1 EXCEPT !.related = @ \cup { RxGroup1(subject) }]
             ELSE p1

\* note_subject adding a citing subject's name to the related set as well
note_subject_CitingAlsoRelated(paper, subject) ==
    IF RxMatches(ART, subject)
    THEN [paper EXCEPT !.author = @ \cup { RxGroup1(subject) }]
    ELSE IF RxMatches(CIT, subject)
         THEN [paper EXCEPT !.citing = @ \cup { RxGroup1(subject) },
                            !.related = @ \cup { RxGroup1(subject) }]
         ELSE IF RxMatches(REL, subject)
              THEN [paper EXCEPT !.related = @ \cup { RxGroup1(subject) }]
              ELSE paper

\* Paper.note_subject
note_subject(paper, subject) ==
    IF RxMatches(ART, subject)
    THEN [paper EXCEPT !.author = @ \cup { RxGroup1(subject) }]
    ELSE LET p1 == IF RxMatches(CIT, subject)
                   THEN [paper EXCEPT !.citing = @ \cup { RxGroup1(subject) }]
                   ELSE paper
         IN  IF RxMatches(REL, subject)
             THEN [p1 EXCEPT !.related = @ \cup { RxGroup1(subject) }]
             ELSE p1

\* ScholarScraper.__init__
NewScraper ==
    [papers |-> << >>, keys |-> << >>, pending_subject |-> None, pending_url |-> None]

\* ScholarScraper.handle_starttag; urlparam is parse_qs(href's query).get('url')
handle_starttag(sc, tag, class, urlparam) ==
    IF tag = "a" /\ class = "gse_alrt_title" /\ urlparam # None
    THEN [sc EXCEPT !.pending_url = Some(urlparam[1])]
    ELSE sc

\* handle_endtag leaving the capture pending
handle_endtag_Keep(sc) == sc

\* ScholarScraper.handle_endtag
handle_endtag(sc) ==
    IF sc.pending_url # None THEN [sc EXCEPT !.pending_url = None] ELSE sc

\* self.papers[key] = value; a dict keeps its keys in insertion order
DictPut(sc, key, value) ==
    [sc EXCEPT
        !.papers = [k \in DOMAIN sc.papers \cup {key} |->
                       IF k = key THEN value ELSE sc.papers[k]],
        !.keys = IF key \in DOMAIN sc.papers THEN @ ELSE Append(@, key)]

\* handle_data without the `not in self.papers` test: a new Paper every time
handle_data_Overwrite(sc, data) ==
    IF sc.pending_url # None
    THEN LET url == sc.pending_url[1]
             sc1 == DictPut(sc, url, Paper(url, data))
         IN  IF sc1.pending_subject # None
             THEN DictPut(sc1, url, note_subject(sc1.papers[url], sc1.pending_subject[1]))
             ELSE sc1
    ELSE sc

\* ScholarScraper.handle_data
handle_data(sc, data) ==
    IF sc.pending_url # None
    THEN LET url == sc.pending_url[1]
             sc1 == IF url \notin DOMAIN sc.papers
                    THEN DictPut(sc, url, Paper(url, data))
                    ELSE sc
         IN  IF sc1.pending_subject # None
             THEN DictPut(sc1, url, note_subject(sc1.papers[url], sc1.pending_subject[1]))
             ELSE sc1
    ELSE sc

\* ScholarScraper.set_subject
set_subject(sc, subject) == [sc EXCEPT !.pending_subject = Some(subject)]

\* the orders in which iteration may deliver the elements of a set
Orderings(S) ==
    { q \in SeqsUpTo(S, Cardinality(S)) :
        Len(q) = Cardinality(S) /\ \A x \in S : \E i \in 1..Len(q) : q[i] = x }

\* ", ".join(names), for the names in the order given
RECURSIVE Join(_)
Join(names) ==
    IF names = <<>> THEN <<>>
    ELSE IF Len(names) = 1 THEN names[1]
    ELSE names[1] \o <<", ">> \o Join(Tail(names))

\* Paper.dump: the strings it prints, the sets iterated in the orders given
PaperDump(paper, ao, co, ro) ==
    << SEP, <<"\t">> \o paper.desc, <<"\t">> \o paper.url >>
    \o (IF Cardinality(paper.author) # 0 THEN << <<"\tauthor: ">> \o Join(ao) >> ELSE <<>>)
    \o (IF Cardinality(paper.citing) # 0 THEN << <<"\tciting: ">> \o Join(co) >> ELSE <<>>)
    \o (IF Cardinality(paper.related) # 0 THEN << <<"\trelated: ">> \o Join(ro) >> ELSE <<>>)

\* Passes with the topics looked up in the description as written
Passes_NoLower(url, paper, nonfree, topics) ==
    /\ ~(\E b \in nonfree : Contains(url, b))
    /\ ~(\E t \in topics : Contains(paper.desc, t))

\* ScholarScraper.dump: the test that lets a paper through
Passes(url, paper, nonfree, topics) ==
    /\ ~(\E b \in nonfree : Contains(url, b))
    /\ LET ld == LowerStr(paper.desc)
       IN  ~(\E t \in topics : Contains(ld, t))

\* what feed hands to the handlers, in order
StartEvent(u) ==
    [kind |-> "start", tag |-> "a", class |-> "gse_alrt_title",
     urlparam |-> Some(u), data |-> <<>>]
EndEvent ==
    [kind |-> "end", tag |-> "a", class |-> "", urlparam |-> None, data |-> <<>>]
DataEvent(d) ==
    [kind |-> "data", tag |-> "", class |-> "", urlparam |-> None, data |-> d]

EventSet ==
    { StartEvent(u) : u \in UrlSet } \cup { EndEvent } \cup { DataEvent(d) : d \in TextSet }

FragmentSet == SeqsUpTo(EventSet, MaxFragLen)

OrderSubjects == { <<"Ann", CIT>>, <<"Bob", ART>> }

\* HTMLParser.feed: the handlers called for the fragment's events; nothing of
\* the scraper is reset between two calls
RECURSIVE feed(_, _)
feed(sc, events) ==
    IF events = <<>> THEN sc
    ELSE LET e == Head(events)
             sc1 == CASE e.kind = "start" ->
                            handle_starttag(sc, e.tag, e.class, e.urlparam)
                      [] e.kind = "end" -> handle_endtag(sc)
                      [] OTHER -> handle_data(sc, e.data)
         IN  feed(sc1, Tail(events))

\* main, one message: scraper.set_subject(subj); scraper.feed(body)
Message(sc, pair) == feed(set_subject(sc, pair.subject), pair.fragment)

InitHarvest ==
    /\ scraper = NewScraper
    /\ hpc = "scan"
    /\ nonfree_blacklist = {}
    /\ topic_blacklist = {}
    /\ dump_i = 0
    /\ printed = <<>>
    /\ ncaptured = 0
    /\ nmsgs = 0
    /\ first_text = << >>
    /\ observed = {}
    /\ recaptured = {}
    /\ anchor_open = None
    /\ extracted = {}

\* main: scraper.set_subject(subj) for the next message
SetSubject ==
    /\ hpc = "scan"
    /\ \E subject \in SubjectSet : scraper' = set_subject(scraper, subject)
    /\ UNCHANGED <<hpc, nonfree_blacklist, topic_blacklist, dump_i, printed,
                   ncaptured, nmsgs, first_text, observed, recaptured,
                   anchor_open, extracted>>
    /\ UNCHANGED notHarvestVars

\* feed: the parser meets a start tag
StartTag ==
    /\ hpc = "scan"
    /\ \E tag \in {"a", "b"}, class \in {"gse_alrt_title", "other"},
          urlparam \in {None} \cup { Some(u) : u \in UrlSet } :
          /\ scraper' = handle_starttag(scraper, tag, class, urlparam)
          /\ IF tag = "a" /\ class = "gse_alrt_title" /\ urlparam # None
             THEN /\ anchor_open' = urlparam
                  /\ extracted' = extracted \cup { urlparam[1] }
             ELSE UNCHANGED <<anchor_open, extracted>>
    /\ UNCHANGED <<hpc, nonfree_blacklist, topic_blacklist, dump_i, printed,
                   ncaptured, nmsgs, first_text, observed, recaptured>>
    /\ UNCHANGED notHarvestVars

\* feed: the parser meets an end tag
EndTag ==
    /\ hpc = "scan"
    /\ scraper' = handle_endtag(scraper)
    /\ anchor_open' = None
    /\ UNCHANGED extracted
    /\ UNCHANGED <<hpc, nonfree_blacklist, topic_blacklist, dump_i, printed,
                   ncaptured, nmsgs, first_text, observed, recaptured>>
    /\ UNCHANGED notHarvestVars

\* feed: the parser meets text
Data ==
    /\ hpc = "scan"
    /\ scraper.pending_url # None => ncaptured < MaxCaptures
    /\ \E data \in TextSet :
          /\ scraper' = handle_data(scraper, data)
          /\ IF scraper.pending_url # None
             THEN LET url == scraper.pending_url[1]
                  IN  /\ ncaptured' = ncaptured + 1
                      /\ first_text' =
                            IF url \in DOMAIN first_text THEN first_text
                            ELSE [k \in DOMAIN first_text \cup {url} |->
                                     IF k = url THEN data ELSE first_text[k]]
                      /\ observed' = observed \cup { <<url, scraper.pending_subject>> }
                      /\ recaptured' =
                            IF url \in DOMAIN first_text /\ first_text[url] # data
                            THEN recaptured \cup {url} ELSE recaptured
             ELSE UNCHANGED <<ncaptured, first_text, observed, recaptured>>
    /\ UNCHANGED <<hpc, nonfree_blacklist, topic_blacklist, dump_i, printed, nmsgs,
                   anchor_open, extracted>>
    /\ UNCHANGED notHarvestVars

\* main: one turn of `for m in messages`, the whole message at once (the
\* history variables follow the parser's events only, above)
FeedMessage ==
    /\ hpc = "scan"
    /\ nmsgs < MaxMessages
    /\ \E subject \in SubjectSet, fragment \in FragmentSet :
          scraper' = Message(scraper, [subject |-> subject, fragment |-> fragment])
    /\ nmsgs' = nmsgs + 1
    /\ UNCHANGED <<hpc, nonfree_blacklist, topic_blacklist, dump_i, printed,
                   ncaptured, first_text, observed, recaptured, anchor_open, extracted>>
    /\ UNCHANGED notHarvestVars

\* main: scraper.dump() is entered and reads the two blacklist files
DumpStart ==
    /\ hpc = "scan"
    /\ nonfree_blacklist' \in NonfreeLists
    /\ topic_blacklist' \in TopicLists
    /\ dump_i' = 0
    /\ hpc' = "dump"
    /\ UNCHANGED <<scraper, printed, ncaptured, nmsgs, first_text, observed, recaptured,
                   anchor_open, extracted>>
    /\ UNCHANGED notHarvestVars

\* dump: one iteration of `for url, paper in self.papers.items()`
DumpPaper ==
    /\ hpc = "dump"
    /\ dump_i < Len(scraper.keys)
    /\ LET url == scraper.keys[dump_i + 1]
           paper == scraper.papers[url]
       IN  IF Passes(url, paper, nonfree_blacklist, topic_blacklist)
           THEN \E ao \in Orderings(paper.author), co \in Orderings(paper.citing),
                   ro \in Orderings(paper.related) :
                   printed' = printed \o PaperDump(paper, ao, co, ro)
           ELSE printed' = printed
    /\ dump_i' = dump_i + 1
    /\ UNCHANGED <<scraper, hpc, nonfree_blacklist, topic_blacklist, ncaptured,
                   nmsgs, first_text, observed, recaptured, anchor_open, extracted>>
    /\ UNCHANGED notHarvestVars

\* dump: the loop is over, main returns
DumpEnd ==
    /\ hpc = "dump"
    /\ dump_i = Len(scraper.keys)
    /\ hpc' = "exit"
    /\ UNCHANGED <<scraper, nonfree_blacklist, topic_blacklist, dump_i, printed,
                   ncaptured, nmsgs, first_text, observed, recaptured, anchor_open, extracted>>
    /\ UNCHANGED notHarvestVars

NextHarvest ==
    \/ SetSubject
    \/ StartTag
    \/ EndTag
    \/ Data

NextDump ==
    \/ FeedMessage
    \/ DumpStart
    \/ DumpPaper
    \/ DumpEnd

InitOrder ==
    /\ ord_pairs \in { q \in SeqsUpTo([subject : OrderSubjects, fragment : FragmentSet],
                                      MaxPairs) : Len(q) = MaxPairs }
    /\ ord_perm \in Orderings(1..MaxPairs)
    /\ ord_a = NewScraper
    /\ ord_b = NewScraper
    /\ ord_ia = 0
    /\ ord_ib = 0

OrderQuiet ==
    /\ ord_pairs = <<>>
    /\ ord_perm = <<>>
    /\ ord_a = NewScraper
    /\ ord_b = NewScraper
    /\ ord_ia = 0
    /\ ord_ib = 0

\* the first scraper gets the next message, in the order given
FeedA ==
    /\ ord_ia < Len(ord_pairs)
    /\ ord_a' = Message(ord_a, ord_pairs[ord_ia + 1])
    /\ ord_ia' = ord_ia + 1
    /\ UNCHANGED <<ord_pairs, ord_perm, ord_b, ord_ib>>
    /\ UNCHANGED notOrderVars

\* the second scraper gets the next message, in the permuted order
FeedB ==
    /\ ord_ib < Len(ord_pairs)
    /\ ord_b' = Message(ord_b, ord_pairs[ord_perm[ord_ib + 1]])
    /\ ord_ib' = ord_ib + 1
    /\ UNCHANGED <<ord_pairs, ord_perm, ord_a, ord_ia>>
    /\ UNCHANGED notOrderVars

NextOrder ==
    \/ FeedA
    \/ FeedB

\* the lines of a text: str split at its newline characters, as reading the
\* text back line by line with the trailing newline removed does
RECURSIVE SplitLines(_, _)
SplitLines(s, cur) ==
    IF s = <<>> THEN << cur >>
    ELSE IF Head(s) = "\n" THEN << cur >> \o SplitLines(Tail(s), <<>>)
    ELSE SplitLines(Tail(s), Append(cur, Head(s)))

\* the lines of the text a sequence of print calls writes: print(x) writes x
\* and a newline
RECURSIVE LinesOf(_)
LinesOf(out) ==
    IF out = <<>> THEN <<>> ELSE SplitLines(Head(out), <<>>) \o LinesOf(Tail(out))

\* texts handle_data may be given: the text of an anchor may run over lines
RoundTextSet ==
    TextSet \cup { <<"m", "\n", "l">>, <<"m", "\n", "-", "-", "-", "\n", "l">> }

\* the mappings one message with one or two alert anchors leaves behind
RoundScrapers ==
    { Message(NewScraper, [subject |-> <<"Ann", CIT>>, fragment |-> f]) :
        f \in { << StartEvent(u), DataEvent(t) >> : u \in UrlSet, t \in RoundTextSet }
           \cup { << StartEvent(u), DataEvent(t), StartEvent(v), DataEvent(w) >> :
                    u \in UrlSet, t \in RoundTextSet, v \in UrlSet, w \in RoundTextSet } }

\* a run of main whose scan has ended; the editor is about to be used with a
\* pattern that every block written by Paper.dump matches
InitRound ==
    /\ scraper \in RoundScrapers
    /\ hpc = "scan"
    /\ nonfree_blacklist = {}
    /\ topic_blacklist = {}
    /\ dump_i = 0
    /\ printed = <<>>
    /\ ncaptured = 0
    /\ nmsgs = 0
    /\ first_text = << >>
    /\ observed = {}
    /\ recaptured = {}
    /\ anchor_open = None
    /\ extracted = {}
    /\ fs_file = File(<<>>)
    /\ fs_bak = Absent
    /\ pat = <<"\t">>
    /\ op = "none"
    /\ pc = "idle"
    /\ rpos = 0
    /\ lines = <<>>
    /\ keep = FALSE
    /\ outbuf = <<>>
    /\ w_attached = FALSE
    /\ exc = "none"
    /\ stdout = <<>>
    /\ runs = 0
    /\ orig = <<>>
    /\ pre_bak = Absent
    /\ show_of = <<>>
    /\ injected = "none"

\* what Paper.dump printed to standard output is the file the editor is given
DumpToFile ==
    /\ hpc = "exit"
    /\ pc \in {"idle", "done"}
    /\ hpc' = "saved"
    /\ fs_file' = File(LinesOf(printed))
    /\ UNCHANGED <<fs_bak, pat, op, pc, rpos, lines, keep, outbuf, w_attached, exc,
                   stdout, runs, orig, pre_bak, show_of, injected>>
    /\ UNCHANGED <<scraper, nonfree_blacklist, topic_blacklist, dump_i, printed,
                   ncaptured, nmsgs, first_text, observed, recaptured, anchor_open, extracted>>
    /\ UNCHANGED <<orderVars, mainVars>>

NextRound ==
    \/ DumpStart
    \/ DumpPaper
    \/ DumpEnd
    \/ DumpToFile
    \/ StartShow
    \/ ShowLine
    \/ ShowEnd

\* a pattern re.compile rejects
BadPattern == <<"(">>

ArgSet == {None} \cup { Some(p) : p \in PatSet \cup {BadPattern} }

\* re.compile(p, re.IGNORECASE) raises re.error
ReCompileFails(p) == p = BadPattern

\* main is not run
MainQuiet ==
    /\ argv = [show |-> None, delete |-> None]
    /\ exit_status = None
    /\ err = "none"
    /\ pre_file = Absent

\* the process starts: a command line, and a target path that holds a file
\* or nothing
InitMain ==
    /\ argv \in [show : ArgSet, delete : ArgSet]
    /\ fs_file \in {Absent} \cup { File(d) : d \in SeqsUpTo(LineSet, MaxFileLen) }
    /\ fs_bak \in { Absent, StaleBackup }
    /\ pat = <<>>
    /\ op = "none"
    /\ pc = "idle"
    /\ rpos = 0
    /\ lines = <<>>
    /\ keep = FALSE
    /\ outbuf = <<>>
    /\ w_attached = FALSE
    /\ exc = "none"
    /\ stdout = <<>>
    /\ runs = 0
    /\ orig = fs_file.data
    /\ pre_bak = fs_bak
    /\ show_of = <<>>
    /\ injected = "none"
    /\ exit_status = None
    /\ err = "none"
    /\ pre_file = fs_file

\* the process ends with an error: exit(1), or an exception nobody catches
Abort(e, propagating) ==
    /\ pc' = "exited"
    /\ exit_status' = Some(1)
    /\ err' = e
    /\ exc' = propagating
    /\ UNCHANGED <<argv, pre_file>>
    /\ UNCHANGED <<harvestVars, orderVars>>

\* main: both --show and --delete
MainBothFlags ==
    /\ pc = "idle"
    /\ argv.show # None /\ argv.delete # None
    /\ stdout' = << <<"can only pass one of --show or --delete">> >>
    /\ Abort("both", "none")
    /\ UNCHANGED <<fs_file, fs_bak, pat, op, rpos, lines, keep, outbuf, w_attached,
                   runs, orig, pre_bak, show_of, injected>>

\* main: neither --show nor --delete
MainNoFlag ==
    /\ pc = "idle"
    /\ argv.show = None /\ argv.delete = None
    /\ stdout' = << <<"must pass one of --show or --delete">> >>
    /\ Abort("neither", "none")
    /\ UNCHANGED <<fs_file, fs_bak, pat, op, rpos, lines, keep, outbuf, w_attached,
                   runs, orig, pre_bak, show_of, injected>>

\* main: re.compile raises
MainBadPattern ==
    /\ pc = "idle"
    /\ \/ argv.show # None /\ argv.delete = None /\ ReCompileFails(argv.show[1])
       \/ argv.show = None /\ argv.delete # None /\ ReCompileFails(argv.delete[1])
    /\ Abort("regex", "Exception")
    /\ UNCHANGED <<fs_file, fs_bak, pat, op, rpos, lines, keep, outbuf, w_attached,
                   stdout, runs, orig, pre_bak, show_of, injected>>

\* main: --show; show_blocks is entered and fileinput opens the file
MainShow ==
    /\ pc = "idle"
    /\ argv.show # None /\ argv.delete = None /\ ~ReCompileFails(argv.show[1])
    /\ fs_file.exists
    /\ pat' = argv.show[1]
    /\ op' = "show"
    /\ pc' = "show_loop"
    /\ runs' = runs + 1
    /\ show_of' = << fs_file.data >>
    /\ UNCHANGED <<fs_file, fs_bak, rpos, lines, keep, outbuf, w_attached, exc,
                   stdout, orig, pre_bak, injected>>
    /\ UNCHANGED <<harvestVars, orderVars, mainVars>>

\* main: --show; fileinput cannot open the file
MainShowOpenFails ==
    /\ pc = "idle"
    /\ argv.show # None /\ argv.delete = None /\ ~ReCompileFails(argv.show[1])
    /\ pat' = argv.show[1]
    /\ op' = "show"
    /\ Abort("open_show", "Exception")
    /\ UNCHANGED <<fs_file, fs_bak, rpos, lines, keep, outbuf, w_attached,
                   stdout, runs, orig, pre_bak, show_of, injected>>

\* main: --delete; drop_blocks and inplace are entered
MainDelete ==
    /\ pc = "idle"
    /\ argv.show = None /\ argv.delete # None /\ ~ReCompileFails(argv.delete[1])
    /\ pat' = argv.delete[1]
    /\ op' = "delete"
    /\ pc' = "unlink_old"
    /\ runs' = runs + 1
    /\ keep' = TRUE
    /\ UNCHANGED <<fs_file, fs_bak, rpos, lines, outbuf, w_attached, exc, stdout,
                   orig, pre_bak, show_of, injected>>
    /\ UNCHANGED <<harvestVars, orderVars, mainVars>>

\* inplace: os.rename(filename, backupfilename) raises, nothing is at filename
InplaceRenameFails ==
    /\ pc = "rename"
    /\ ~fs_file.exists
    /\ Abort("rename", "Exception")
    /\ UNCHANGED <<fs_file, fs_bak, pat, op, rpos, lines, keep, outbuf, w_attached,
                   stdout, runs, orig, pre_bak, show_of, injected>>

\* inplace: io.open(backupfilename) raises; the call is not inside a try
InplaceOpenReadableFails ==
    /\ pc = "open_r"
    /\ Abort("open_r", "Exception")
    /\ UNCHANGED <<fs_file, fs_bak, pat, op, rpos, lines, keep, outbuf, w_attached,
                   stdout, runs, orig, pre_bak, show_of, injected>>

\* inplace: os.open(filename, O_CREAT ...) raises; the call is not inside a try
InplaceOpenWritableFails ==
    /\ pc = "open_w"
    /\ Abort("open_w", "Exception")
    /\ UNCHANGED <<fs_file, fs_bak, pat, op, rpos, lines, keep, outbuf, w_attached,
                   stdout, runs, orig, pre_bak, show_of, injected>>

\* main returns, or the exception inplace let through ends the process
MainExit ==
    /\ pc = "done"
    /\ pc' = "exited"
    /\ exit_status' = IF exc = "none" THEN Some(0) ELSE Some(1)
    /\ UNCHANGED <<fs_file, fs_bak, pat, op, rpos, lines, keep, outbuf, w_attached,
                   exc, stdout, runs, orig, pre_bak, show_of, injected>>
    /\ UNCHANGED <<argv, err, pre_file>>
    /\ UNCHANGED <<harvestVars, orderVars>>

NextMain ==
    \/ MainBothFlags
    \/ MainNoFlag
    \/ MainBadPattern
    \/ MainShow
    \/ MainShowOpenFails
    \/ ShowLine
    \/ ShowEnd
    \/ MainDelete
    \/ InplaceUnlinkOld
    \/ InplaceRename
    \/ InplaceRenameFails
    \/ InplaceOpenReadable
    \/ InplaceOpenReadableFails
    \/ InplaceOpenWritable
    \/ InplaceOpenWritableFails
    \/ WriteBack
    \/ DropLine
    \/ DropEnd
    \/ RaiseInBody
    \/ ExceptUnlink
    \/ ExceptRename
    \/ FinallyCloseReadable
    \/ FinallyCloseWritable
    \/ FinallyUnlinkBackup
    \/ MainExit

\* no editor runs: one file, untouched
EditQuiet ==
    /\ fs_file = File(<<>>)
    /\ fs_bak = Absent
    /\ pat = <<"a">>
    /\ op = "none"
    /\ pc = "idle"
    /\ rpos = 0
    /\ lines = <<>>
    /\ keep = FALSE
    /\ outbuf = <<>>
    /\ w_attached = FALSE
    /\ exc = "none"
    /\ stdout = <<>>
    /\ runs = 0
    /\ orig = <<>>
    /\ pre_bak = Absent
    /\ show_of = <<>>
    /\ injected = "none"

\* no aggregator runs
HarvestQuiet == InitHarvest

-----------------------------------------------------------------------------
(* The specifications *)

\* the editor, run up to MaxRuns times on one file
Init == InitEdit /\ HarvestQuiet /\ OrderQuiet /\ MainQuiet

Next == NextEdit

Spec == Init /\ [][Next]_vars

\* the scraper, driven by the parser's events
InitH == InitHarvest /\ EditQuiet /\ OrderQuiet /\ MainQuiet

NextH == NextHarvest

SpecHarvest == InitH /\ [][NextH]_vars

\* one run of main: up to MaxMessages messages, then dump
InitD == InitHarvest /\ EditQuiet /\ OrderQuiet /\ MainQuiet

NextD == NextDump

SpecDump == InitD /\ [][NextD]_vars

\* the same messages fed to two scrapers, in two orders
InitO == InitOrder /\ EditQuiet /\ HarvestQuiet /\ MainQuiet

NextO == NextOrder

SpecOrder == InitO /\ [][NextO]_vars

\* Paper.dump's output segmented by the editor
InitR == InitRound /\ OrderQuiet /\ MainQuiet

NextR == NextRound

SpecRound == InitR /\ [][NextR]_vars

\* one process of edit.py, from its command line to its exit
InitM == InitMain /\ HarvestQuiet /\ OrderQuiet

NextM == NextMain

SpecMain == InitM /\ [][NextM]_vars

-----------------------------------------------------------------------------
(* The terms the editor's claims are stated in: a block is a maximal run of  *)
(* lines between lines equal to the separator; an empty run is no block.     *)

RECURSIVE SegmentFrom(_, _, _)
SegmentFrom(ls, i, cur) ==
    LET done == IF cur = <<>> THEN <<>> ELSE << cur >>
    IN  IF i > Len(ls) THEN done
        ELSE IF ls[i] = SEP THEN done \o SegmentFrom(ls, i + 1, <<>>)
        ELSE SegmentFrom(ls, i + 1, Append(cur, ls[i]))

Blocks(ls) == SegmentFrom(ls, 1, <<>>)

RECURSIVE Serialize(_)
Serialize(bs) ==
    IF bs = <<>> THEN <<>> ELSE <<SEP>> \o Head(bs) \o Serialize(Tail(bs))

AnyLineMatches(b) == \E i \in 1..Len(b) : PatSearch(pat, b[i])
NoLineMatches(b) == ~AnyLineMatches(b)

\* every block is introduced by a separator line and no other line begins with it
WellFormed(ls) ==
    /\ ls = Serialize(Blocks(ls))
    /\ \A i \in 1..Len(ls) : StartsWith(ls[i], SEP) => ls[i] = SEP

IsPrefix(p, s) == Len(p) <= Len(s) /\ SubSeq(s, 1, Len(p)) = p

\* the elements of s at the positions where mask is b
RECURSIVE Pick(_, _, _, _)
Pick(s, mask, b, i) ==
    IF i > Len(s) THEN <<>>
    ELSE (IF mask[i] = b THEN << s[i] >> ELSE <<>>) \o Pick(s, mask, b, i + 1)

\* s is split, order kept, into exactly the two sequences x and y
Partitions(s, x, y) ==
    \E mask \in [1..Len(s) -> BOOLEAN] :
        Pick(s, mask, TRUE, 1) = x /\ Pick(s, mask, FALSE, 1) = y

\* what a whole, undisturbed run of drop_blocks writes for the content ls
RECURSIVE DropRun(_, _, _)
DropRun(st, ls, i) ==
    IF i > Len(ls) THEN DropTail(st) ELSE DropRun(DropIter(st, ls[i]), ls, i + 1)

Rewritten == DropRun([lines |-> <<>>, keep |-> TRUE, out |-> <<>>], orig, 1)

AfterRename ==
    {"open_r", "open_w", "body", "except_unlink", "except_rename",
     "finally_close_r", "finally_close_w", "finally_unlink", "done"}

-----------------------------------------------------------------------------
C2_FailureRollsBack ==
    (op = "delete" /\ pc = "done" /\ injected = "Exception") =>
        /\ fs_file = File(orig)
        /\ fs_bak = Absent
        /\ exc = "Exception"

\* the failure came after part of the input was read and part of the output
\* had reached the new file, with a stale backup present before the run
C2_FailedMidStream ==
    /\ op = "delete" /\ pc = "done" /\ injected = "Exception"
    /\ 0 < rpos /\ rpos < Len(orig)
    /\ outbuf = <<>> /\ Len(Rewritten) > 1

(* C3: after a successful delete the backup is gone and the original path    *)
(* holds exactly the serialization of the blocks of the original file in     *)
(* which no line matches the pattern, in order, lines unchanged.             *)
C3_DeleteKeepsUnmatchedBlocks ==
    (op = "delete" /\ pc = "done" /\ injected = "none") =>
        /\ fs_bak = Absent
        /\ fs_file = File(Serialize(SelectSeq(Blocks(orig), NoLineMatches)))

(* C4: a delete whose pattern matches no line of a well-formed block-stream  *)
(* file leaves the file byte-identical.                                      *)
C4_NoMatchDeleteIsIdentity ==
    (/\ op = "delete" /\ pc = "done" /\ injected = "none"
     /\ WellFormed(orig)
     /\ \A i \in 1..Len(orig) : ~PatSearch(pat, orig[i]))
        => fs_file = File(orig)

(* C5: the blocks show writes and the blocks left in the file by a delete    *)
(* of the same content with the same pattern partition the original block    *)
(* sequence.                                                                 *)
C5_ShowAndDeletePartition ==
    (op = "delete" /\ pc = "done" /\ injected = "none" /\ show_of = << orig >>)
        => Partitions(Blocks(orig), Blocks(stdout), Blocks(fs_file.data))

(* C6: show writes exactly the blocks that have a line matching the pattern, *)
(* in file order, each after a separator line, and changes nothing on disk.  *)
C6_ShowWritesMatchingBlocks ==
    (op = "show" /\ pc = "done") =>
        /\ stdout = Serialize(SelectSeq(Blocks(orig), AnyLineMatches))
        /\ fs_file = File(orig)
        /\ fs_bak = pre_bak

-----------------------------------------------------------------------------
(* The terms the aggregator's claims are stated in *)

\* the category a subject classifies to, by its fixed suffix
CategoryOf(subject) ==
    IF subject = <<>> THEN "none"
    ELSE CASE subject[Len(subject)] = ART -> "author"
           [] subject[Len(subject)] = CIT -> "citing"
           [] subject[Len(subject)] = REL -> "related"
           [] OTHER -> "none"

\* the watched entity: the subject without its suffix
EntityName(subject) == SubSeq(subject, 1, Len(subject) - 1)

\* the entity names of the subjects observed for url that classify to cat
NamesObserved(url, cat) ==
    { EntityName(o[2][1]) : o \in { x \in observed :
          x[1] = url /\ x[2] # None /\ CategoryOf(x[2][1]) = cat } }

\* the URL lines of the blocks in the output: the second line after a separator
RECURSIVE PrintedUrls(_, _)
PrintedUrls(out, i) ==
    IF i > Len(out) THEN <<>>
    ELSE IF out[i] = SEP /\ i + 2 <= Len(out)
         THEN << Tail(out[i + 2]) >> \o PrintedUrls(out, i + 3)
         ELSE PrintedUrls(out, i + 1)

\* the Record passes both blacklists
Allowed(url) ==
    /\ \A b \in nonfree_blacklist : ~Contains(url, b)
    /\ \A t \in topic_blacklist : ~Contains(LowerStr(scraper.papers[url].desc), t)

\* the two mappings have the same URLs and, per URL, the same three name sets
SameApartFromDescription(p, q) ==
    /\ DOMAIN p = DOMAIN q
    /\ \A u \in DOMAIN p :
          /\ p[u].author = q[u].author
          /\ p[u].citing = q[u].citing
          /\ p[u].related = q[u].related

(* C7: the mapping holds exactly one Record per canonical URL for which text *)
(* was captured, and its description is the first text captured for that URL *)
(* whatever was captured later, for it or for other URLs.                    *)
C7_OneRecordPerUrlWithFirstText ==
    /\ DOMAIN scraper.papers = DOMAIN first_text
    /\ Len(scraper.keys) = Cardinality(DOMAIN scraper.papers)
    /\ \A u \in DOMAIN scraper.papers :
          /\ \E i \in 1..Len(scraper.keys) : scraper.keys[i] = u
          /\ scraper.papers[u].url = u
          /\ scraper.papers[u].desc = first_text[u]

\* a URL was captured again with another text, and another URL was captured too
C7_RecapturedAmongOthers ==
    /\ Cardinality(DOMAIN scraper.papers) = 2
    /\ \E u \in recaptured : scraper.papers[u].desc = first_text[u]

(* C9: for every URL and category, the Record's set for the category is      *)
(* exactly the set of distinct entity names of the subjects observed for the *)
(* URL that classify to the category.                                        *)
C9_CategorySetsAreExact ==
    \A u \in DOMAIN scraper.papers :
        /\ scraper.papers[u].author = NamesObserved(u, "author")
        /\ scraper.papers[u].citing = NamesObserved(u, "citing")
        /\ scraper.papers[u].related = NamesObserved(u, "related")

\* three captures for one URL under two subjects of one category: one of the
\* names was observed twice and is in the set once
C9_TwoNamesThreeCaptures ==
    \E u \in UrlSet :
        /\ ncaptured = 3
        /\ DOMAIN scraper.papers = {u}
        /\ observed = { <<u, Some(<<"Ann", CIT>>)>>, <<u, Some(<<"Bob", CIT>>)>> }
        /\ scraper.papers[u].citing = { <<"Ann">>, <<"Bob">> }

(* C10: dump writes a Record if and only if no publisher-blacklist entry is  *)
(* a substring of its URL and no topic-blacklist entry is a substring of its *)
(* lower-cased description; the Records written are written once each, in    *)
(* mapping iteration order.                                                  *)
C10_DumpWritesExactlyAllowed ==
    hpc \in {"dump", "exit"} =>
        PrintedUrls(printed, 1) = SelectSeq(SubSeq(scraper.keys, 1, dump_i), Allowed)

\* a run in which the topic list drops one Record by its case-folded
\* description and the other Record is written
C10_TopicFilteredByLowerCase ==
    /\ hpc = "exit"
    /\ Len(scraper.keys) = 2
    /\ nonfree_blacklist = {}
    /\ topic_blacklist = { <<"q">> }
    /\ Len(PrintedUrls(printed, 1)) = 1

(* C8: the same messages processed in any order give the same final mapping, *)
(* apart from the descriptions.                                              *)
C8_OrderIndependent ==
    (ord_ia = Len(ord_pairs) /\ ord_ib = Len(ord_pairs))
        => SameApartFromDescription(ord_a.papers, ord_b.papers)

-----------------------------------------------------------------------------
\* the Records dump lets through, in mapping order
Survivors == SelectSeq(scraper.keys, Allowed)

(* C11: the text Paper.dump writes for the surviving Records, segmented by   *)
(* the editor, gives exactly one block per surviving Record, in order, and   *)
(* the block holds the lines of the Record's description and its URL line.   *)
C11_DumpSegmentsToOneBlockPerRecord ==
    (hpc = "saved" /\ op = "show" /\ pc = "done" /\ show_of = << LinesOf(printed) >>)
        => /\ Len(Blocks(stdout)) = Len(Survivors)
           /\ \A i \in 1..Len(Survivors) :
                 LET b == Blocks(stdout)[i]
                     p == scraper.papers[Survivors[i]]
                     has(l) == \E j \in 1..Len(b) : b[j] = l
                 IN  /\ has(<<"\t">> \o p.url)
                     /\ \A l \in { SplitLines(<<"\t">> \o p.desc, <<>>)[k] :
                                     k \in 1..Len(SplitLines(<<"\t">> \o p.desc, <<>>)) } : has(l)

-----------------------------------------------------------------------------
\* the errors of use: the flags, the pattern, a target that cannot be read
UsageErrors == {"both", "neither", "regex", "open_show", "rename", "open_r"}

(* C12: a run that ends with a usage error - both flags, no flag, a pattern  *)
(* that does not compile, a target file that cannot be read - exits with a   *)
(* non-zero status and has changed nothing: the original path and the backup *)
(* path are as they were when the process started.                           *)
C12_UsageErrorChangesNothing ==
    (pc = "exited" /\ err \in UsageErrors) =>
        /\ exit_status # None /\ exit_status # Some(0)
        /\ fs_file = pre_file
        /\ fs_bak = pre_bak

(* C13: when opening the backup for reading or creating the new file fails   *)
(* after the rename, the process ends with the failure propagated, the       *)
(* original path holds the file it held before and nothing is left at the    *)
(* backup path.                                                              *)
C13_OpenFailureRollsBack ==
    (pc = "exited" /\ err \in {"open_r", "open_w"}) =>
        /\ exc = "Exception"
        /\ exit_status = Some(1)
        /\ fs_file = pre_file
        /\ fs_bak = Absent

-----------------------------------------------------------------------------
\* the lines of ls[1..n] after the last line equal to the separator
RECURSIVE CurrentRun(_, _)
CurrentRun(ls, n) ==
    IF n = 0 \/ ls[n] = SEP THEN <<>> ELSE Append(CurrentRun(ls, n - 1), ls[n])

(* C14: while show_blocks or drop_blocks reads its input, the block being    *)
(* accumulated holds every line read since the last line exactly equal to    *)
(* '---' (a line that only begins with '---' is a data line like any other), *)
(* and the keep flag tells whether one of those lines matches the pattern.   *)
C14_BoundaryIsExactSeparatorLine ==
    /\ (op = "show" /\ pc = "show_loop") =>
          /\ lines = CurrentRun(fs_file.data, rpos)
          /\ keep = AnyLineMatches(CurrentRun(fs_file.data, rpos))
    /\ (op = "delete" /\ pc = "body") =>
          /\ lines = CurrentRun(fs_bak.data, rpos)
          /\ keep = NoLineMatches(CurrentRun(fs_bak.data, rpos))

\* no separator line of the output is followed by zero block lines
NoEmptyBlock(out) ==
    \A i \in 1..Len(out) : out[i] = SEP => (i < Len(out) /\ out[i + 1] # SEP)

(* C15: neither show_blocks nor drop_blocks ever writes a separator line     *)
(* that is followed by zero block lines, whatever the input: what show has   *)
(* written so far, and what a delete has written so far to the new file,     *)
(* holds no empty block.                                                     *)
C15_NoEmptyBlockWritten ==
    /\ op = "show" => NoEmptyBlock(stdout)
    /\ (op = "delete" /\ pc = "body") => NoEmptyBlock(fs_file.data \o outbuf)
    /\ (op = "delete" /\ pc = "done" /\ injected = "none") => NoEmptyBlock(fs_file.data)

-----------------------------------------------------------------------------
(* C16: a capture is pending exactly when a qualifying anchor start tag has  *)
(* been met and no end tag since, and the pending URL is that anchor's url   *)
(* parameter; text met while no capture is pending changes nothing, and text *)
(* met while one is pending touches the Record of the pending URL only.      *)
C16_CaptureOnlyWhilePending ==
    /\ scraper.pending_url = anchor_open
    /\ anchor_open = None => \A d \in TextSet : handle_data(scraper, d) = scraper
    /\ anchor_open # None =>
          \A d \in TextSet :
              LET after == handle_data(scraper, d)
              IN  /\ DOMAIN after.papers = DOMAIN scraper.papers \cup { anchor_open[1] }
                  /\ \A k \in DOMAIN scraper.papers \ { anchor_open[1] } :
                        after.papers[k] = scraper.papers[k]
                  /\ after.pending_url = scraper.pending_url

\* text was captured for both URLs and an end tag has returned the parser to
\* the idle state
C16_IdleAfterCaptures ==
    /\ ncaptured >= 2
    /\ Cardinality(DOMAIN scraper.papers) = 2
    /\ anchor_open = None
    /\ scraper.pending_url = None

(* C17: once the anchors met so far have been closed, the keys of the        *)
(* mapping are exactly the canonical URLs the parser has extracted from      *)
(* qualifying anchors: every extracted URL has a Record and there is no      *)
(* other key.                                                                *)
C17_KeysAreExtractedUrls ==
    anchor_open = None => DOMAIN scraper.papers = extracted

-----------------------------------------------------------------------------
\* subject lines: no suffix, each suffix after a name, a suffix alone, two
\* suffixes in a row, a suffix that is not at the end
SubjectShapes ==
    { <<>>, <<"Ann">>, <<"Ann", ART>>, <<"Bob", CIT>>, <<"Ann", REL>>, <<CIT>>,
      <<"Ann", ART, CIT>>, <<"Ann", CIT, REL>>, <<"Ann", REL, ART>>, <<ART, "Ann">> }

\* the names one call adds to the set of category cat for the subject
Added(subject, cat) ==
    IF CategoryOf(subject) = cat THEN { EntityName(subject) } ELSE {}

(* C18: for every Record and every subject, one call of note_subject adds    *)
(* the entity name to the one set the subject's suffix stands for and to no  *)
(* other, and changes nothing for a subject with none of the suffixes.       *)
C18_OneCallOneSet ==
    \A u \in DOMAIN scraper.papers : \A subject \in SubjectShapes :
        LET before == scraper.papers[u]
            after == note_subject(before, subject)
        IN  /\ after.url = before.url
            /\ after.desc = before.desc
            /\ after.author = before.author \cup Added(subject, "author")
            /\ after.citing = before.citing \cup Added(subject, "citing")
            /\ after.related = before.related \cup Added(subject, "related")

\* one Record has been noted under an articles subject, a citations subject
\* and a subject with no suffix: two sets hold the name, the third is empty
C18_ThreeCallsTwoSets ==
    \E u \in DOMAIN scraper.papers :
        /\ { o[2] : o \in { x \in observed : x[1] = u } }
              = { Some(<<"Ann", ART>>), Some(<<"Ann", CIT>>), Some(<<"Ann">>) }
        /\ scraper.papers[u].author = { <<"Ann">> }
        /\ scraper.papers[u].citing = { <<"Ann">> }
        /\ scraper.papers[u].related = {}

-----------------------------------------------------------------------------
(* C19: in every state of a delete, whatever failure or interrupt is         *)
(* delivered, the complete original content is at the original path or at    *)
(* the backup path, until the new file holds the complete rewritten content  *)
(* and has been closed.                                                      *)
C19_OriginalNeverLost ==
    (op = "delete" /\ pc # "idle") =>
        \/ fs_file = File(orig)
        \/ fs_bak = File(orig)
        \/ (pc \in {"finally_unlink", "done"} /\ fs_file = File(Rewritten))

\* the fragment holds a qualifying anchor for the URL
HasAnchor(fragment, u) ==
    \E j \in 1..Len(fragment) : fragment[j] = StartEvent(u)

\* the names of a Record's set for a category
NamesOf(paper, cat) ==
    CASE cat = "author" -> paper.author
      [] cat = "citing" -> paper.citing
      [] OTHER -> paper.related

(* C20: every entity name in the Record of a URL comes from a message fed so *)
(* far whose subject carries that name and category and whose own fragment   *)
(* holds the qualifying anchor for the URL: no capture is carried over from  *)
(* one message into the next.                                                *)
C20_NamesOnlyFromOwnFragment ==
    \A u \in DOMAIN ord_a.papers : \A cat \in {"author", "citing", "related"} :
        \A n \in NamesOf(ord_a.papers[u], cat) :
            \E i \in 1..ord_ia :
                /\ CategoryOf(ord_pairs[i].subject) = cat
                /\ EntityName(ord_pairs[i].subject) = n
                /\ HasAnchor(ord_pairs[i].fragment, u)

====
